---------------------------- MODULE Spec2Model ----------------------------
(***************************************************************************)
(* The staged procurement scheduler of EnergyTradingAnalysis.              *)
(*                                                                         *)
(* Two scripts carry a sched_proc and a sweep over n_parts_list:           *)
(*   src/src/scheduled_procurement.py  (impl = "scheduled_procurement")    *)
(*   src/modelling.py                  (impl = "modelling")                *)
(* One behaviour of the model is one run of one of the two scripts from    *)
(* the point where price_avg is known: the sweep loops, every call of      *)
(* sched_proc inside them, and inside a call every iteration of the        *)
(* segment loop and of the scan loop, one step each.                       *)
(*                                                                         *)
(* Python indices are 0-based and are kept 0-based: At(s, idx) reads the   *)
(* element a Python s[idx] reads.  Prices, volumes and limits are floats   *)
(* in the code; the model takes them from small integer sets and keeps     *)
(* the one quotient of the code, mwhs / n_parts, as an exact fraction      *)
(* [num, den], so IEEE rounding of products and sums is not modelled.      *)
(* The rounding of the boundary computations is modelled (see linspace     *)
(* and parts_modelling).                                                   *)
(***************************************************************************)
EXTENDS Integers, Sequences, FiniteSets, TLC

\* ------------------------------------------------------------------ bounds
MaxLen == 3        \* longest price_avg series
MaxPrice == 1      \* prices are 0..MaxPrice
MaxN == 4          \* largest n_parts of a sweep

Prices == 0..MaxPrice
Limits == {-1, 0, 1}
Volumes == {3, 1000}
NValues == -2..MaxN
Impls == {"scheduled_procurement", "modelling"}

\* the n_parts_list of a run: no, one or two partition counts, in any order,
\* repeated or not
NLists == {<< >>} \cup {<<a>> : a \in NValues} \cup {<<a, b>> : a, b \in NValues}

\* the defaults of sched_proc(price, mwhs=1000, n_parts=4, limit=10)
mwhs_default == 1000
limit_default == 10

\* a week of daily prices with a dip and a rebound, run with the defaults
ScenarioPrices == <<100, 90, 80, 95, 70, 85, 110>>

RECURSIVE SeqsUpTo(_, _)
SeqsUpTo(S, n) ==
    IF n = 0 THEN {<< >>}
    ELSE LET shorter == SeqsUpTo(S, n - 1)
         IN  shorter \cup {Append(s, x) : s \in {t \in shorter : Len(t) = n - 1}, x \in S}

\* ------------------------------------------------------------ Python helpers
\* s[idx] of a Python sequence, idx >= 0
At(s, idx) == s[idx + 1]

\* s[idx] raises IndexError (idx is never negative in these scripts)
IndexError(s, idx) == idx >= Len(s)

\* reversed(s)
reversed(s) == [j \in 1..Len(s) |-> s[Len(s) + 1 - j]]

\* range(n) as a set: empty for n <= 0
range(n) == 0..(n - 1)

RECURSIVE SumAt(_, _)
\* the sum of s[b] over the indices b of the list idxs
SumAt(s, idxs) ==
    IF idxs = << >> THEN 0 ELSE At(s, Head(idxs)) + SumAt(s, Tail(idxs))


\* ------------------------------------------------------------- boundaries
\* IEEE double arithmetic, for series lengths and partition counts up to 38:
\* the triples <<L, N, p>> where the double p * (L / N) lies just below the
\* integer p * L / N, so that its floor is one less than floor(p * L / N).
LinspaceRoundsBelow == {<<30, 22, 11>>, <<30, 26, 13>>}

\* the same for the double (p / N) * L of modelling.py
ModellingRoundsBelow == {<<22, 22, 15>>, <<23, 23, 13>>, <<26, 26, 15>>}

\* np.linspace(0, stop, num, endpoint=False, dtype=int)[p]
linspace_noendpoint(stop, N, p) == (p * stop) \div (N + 1)

\* np.linspace(0, stop, num, dtype=int)[p], for num = N + 1 >= 1, 0 <= p <= N:
\* step = stop / N, y[p] = p * step, y[N] = stop, floor(y)
linspace(stop, N, p) ==
    IF N = 0 THEN 0
    ELSE IF p = N THEN stop
    ELSE ((p * stop) \div N) - (IF <<stop, N, p>> \in LinspaceRoundsBelow THEN 1 ELSE 0)

\* int(n / n_parts * len(price)), for n_parts >= 1, 0 <= n <= n_parts
parts_modelling(len, N, n) ==
    ((n * len) \div N) - (IF <<len, N, n>> \in ModellingRoundsBelow THEN 1 ELSE 0)

\* ---------------------------------------------------------- the scan's tests
\* current_price >= (ref + limit)
Triggers_ge(current_price, r, lim) == current_price >= (r + lim)

\* current_price > (ref - limit)
Triggers_minus(current_price, r, lim) == current_price > (r - lim)

\* current_price > (ref + limit)
Triggers(current_price, r, lim) == current_price > (r + lim)

\* current_price > ref
Ratchets_flipped(current_price, r) == current_price > r

\* the reference never moves
Ratchets_never(current_price, r) == FALSE

\* current_price < ref
Ratchets(current_price, r) == current_price < r

\* ---------------------------------------------------------------- the total
\* np.sum(price[buy_indic] * mwhs)
SumTotal_undivided(pr, idxs, vol, N) == [num |-> vol * SumAt(pr, idxs), den |-> 1]

\* np.sum(price[buy_indic] * (mwhs / n_parts)), as the fraction num / den
SumTotal(pr, idxs, vol, N) == [num |-> vol * SumAt(pr, idxs), den |-> N]

\* total_price = 0.0
ZeroTotal == [num |-> 0, den |-> 1]

\* ------------------------------------------------------------ the averaging
\* s[start::step], step >= 1
Slice(s, start, step) ==
    LET n == IF Len(s) > start THEN (Len(s) - start + step - 1) \div step ELSE 0
    IN  [m \in 1..n |-> At(s, start + (m - 1) * step)]

\* s[:-1]
DropLast(s) == IF s = << >> THEN << >> ELSE SubSeq(s, 1, Len(s) - 1)

RECURSIVE SumSlice(_, _, _)
\* np.sum(s[lo:hi]), 0 <= lo, hi <= len(s)
SumSlice(s, lo, hi) ==
    IF lo >= hi THEN 0 ELSE At(s, lo) + SumSlice(s, lo + 1, hi)

\* a mean is kept as the exact fraction sum / count; nan is 0 / 0
NaN == [num |-> 0, den |-> 0]

\* pd.Series(s).rolling(window=w, center=False).sum().values
rolling_sum(s, w) ==
    [j \in 1..Len(s) |->
        IF j < w THEN NaN ELSE [num |-> SumSlice(s, j - w, j), den |-> 1]]

\* pd.Series(s).rolling(window=w, center=False).mean().values, w >= 1:
\* nan until w samples are in the window, then the mean of the last w samples
rolling_mean(s, w) ==
    [j \in 1..Len(s) |->
        IF j < w THEN NaN ELSE [num |-> SumSlice(s, j - w, j), den |-> w]]

\* np.convolve(s, np.ones(w)/w, mode='valid'), w >= 1, len(s) >= 1: the mean
\* of every w consecutive samples; np.convolve swaps its arguments when the
\* second is the longer, so a series shorter than w gives w - len(s) + 1
\* times the sum of the whole series over w
convolve_valid(s, w) ==
    IF Len(s) >= w
    THEN [j \in 1..(Len(s) - w + 1) |-> [num |-> SumSlice(s, j - 1, j - 1 + w), den |-> w]]
    ELSE [j \in 1..(w - Len(s) + 1) |-> [num |-> SumSlice(s, 0, Len(s)), den |-> w]]

\* time[::w][:-1]
time_avg_modelling(t, w) == DropLast(Slice(t, 0, w))

\* time[w-1::w]
time_avg_sp(t, w) == Slice(t, w - 1, w)

\* the timestamps of n raw samples: hours since the first
time_of(n) == [j \in 1..n |-> j - 1]

\* ------------------------------------------------------------------- state
VARIABLES
    impl,           \* which script runs
    price,          \* the raw price column
    time,           \* the raw timestamps, one per raw price
    ma_window_size, \* the averaging window
    time_avg,       \* the reduced timestamps
    price_avg,      \* the reduced series, handed to sched_proc (price=price_avg)
    mwhs,           \* the volume argument
    limit,          \* the limit argument
    n_parts_list,   \* the partition counts of the sweep
    pc,             \* position in the script
    loop,           \* which sweep loop runs: "cost" or "plot"
    k,              \* 1-based position in the running sweep loop
    n_parts,        \* sched_proc's n_parts argument
    parts,          \* sched_proc's parts
    p,              \* the segment loop's p
    i,              \* the index the scan examines (actual_idx / i)
    ref,            \* the reference price
    buy_indic,      \* the recorded execution indices
    total_price,    \* sched_proc's total, a fraction
    reads,          \* the prices the segment loop has read in this call: [seg, idx]
    results_cache,  \* scheduled_procurement.py: n_parts -> (buy_indic, total_price)
    plotted,        \* what the plot loop drew: <<n_parts, buy_indic>> per N
    total_prices,   \* the cost curve
    err             \* the exception that ended the script, or "none"

\* The application modules under src/src (datamanager.py, analysis.py).  The
\* two scripts never touch their state, and they never touch the scripts'.
VARIABLES
    country_codes,  \* DataManager: the country codes, in file order
    data,           \* DataManager: [loaded, keys]: self.__data is None or a dict with keys
    unwritable,     \* the countries whose directory cannot be written
    c,              \* 1-based position of the country loop
    log,            \* the logger's records: [level, about]
    saved,          \* the analysis files written: <<country, feature>>
    features_file,  \* features.csv has been written
    csv,            \* the timestamps of the rows of the country's CSV file
    file_exists,    \* filepath.exists()
    dir_exists,     \* the country's directory exists
    start_date,     \* download_by_country_code: start_date
    end_date,       \* download_by_country_code: end_date
    append,         \* download_by_country_code: append
    queries,        \* the price queries sent: [start, end]
    calls,          \* how many download_by_country_code calls were made
    analyzers,      \* AnalysisRunner: the registered analyzers, [name, raises]
    results,        \* run_all: results, class name -> position of the analyzer
    invoked,        \* the positions of the analyzers whose analyze was called
    analyzer,       \* 1-based position of run_all's loop
    end_time,       \* ForecastAnalyzer.analyze: end_time, in hours
    backtest_days,  \* ForecastAnalyzer: backtest_days
    step_hours,     \* ForecastAnalyzer: step_hours
    current_cutoff, \* ForecastAnalyzer.analyze: current_cutoff
    cutoffs         \* ForecastAnalyzer.analyze: cutoffs

datamanager == <<country_codes, data, unwritable, c, log, saved, features_file>>
download == <<csv, file_exists, dir_exists, start_date, end_date, append, queries,
              calls>>
runner == <<analyzers, results, invoked, analyzer>>
forecast == <<end_time, backtest_days, step_hours, current_cutoff, cutoffs>>
app == <<datamanager, download, runner, forecast>>

raw == <<price, time, ma_window_size>>
inputs == <<impl, raw, time_avg, price_avg, mwhs, limit, n_parts_list, app>>
locals == <<n_parts, parts, p, i, ref, buy_indic, total_price, reads>>
outputs == <<results_cache, plotted, total_prices>>
vars == <<impl, price, time, ma_window_size, time_avg, price_avg, mwhs, limit,
          n_parts_list, pc, loop, k, n_parts, parts, p, i, ref, buy_indic,
          total_price, reads, results_cache, plotted, total_prices, err,
          country_codes, data, unwritable, c, log, saved, features_file,
          csv, file_exists, dir_exists, start_date, end_date, append, queries,
          calls, analyzers, results, invoked, analyzer, end_time, backtest_days,
          step_hours, current_cutoff, cutoffs>>

\* the empty dict
EmptyDict == [x \in {} |-> 0]

\* d[key] = value
DictSet(d, key, value) ==
    [x \in (DOMAIN d) \cup {key} |-> IF x = key THEN value ELSE d[x]]

\* every loop visits n_parts_list from its end
LoopOrder_reversed == reversed(n_parts_list)

\* the order in which the running loop visits n_parts_list
LoopOrder == IF loop = "plot" THEN reversed(n_parts_list) ELSE n_parts_list

\* the loop a script runs first: scheduled_procurement.py fills results_cache
\* and then plots from it; modelling.py plots first and then sweeps again
FirstLoop(im) == IF im = "scheduled_procurement" THEN "cost" ELSE "plot"

\* no DataManager has been constructed
DataManagerIdle ==
    /\ country_codes = << >>
    /\ data = [loaded |-> FALSE, keys |-> {}]
    /\ unwritable = {}
    /\ c = 1
    /\ log = << >>
    /\ saved = {}
    /\ features_file = FALSE

\* Timestamps are counted in quarters of an hour from DATA_START_DATE, and
\* the switch to 15-minute prices is put two hours after it.
DATA_START_DATE == 0
START_OF_15_MIN_SPOT_PRICE == 8

\* no download has been made
DownloadIdle ==
    /\ csv = << >>
    /\ file_exists = FALSE
    /\ dir_exists = FALSE
    /\ start_date = DATA_START_DATE
    /\ end_date = DATA_START_DATE
    /\ append = FALSE
    /\ queries = << >>
    /\ calls = 0

\* no AnalysisRunner has been constructed
RunnerIdle ==
    /\ analyzers = << >>
    /\ results = [x \in {} |-> 0]
    /\ invoked = << >>
    /\ analyzer = 1

\* no ForecastAnalyzer has been constructed
ForecastIdle ==
    /\ end_time = 0
    /\ backtest_days = 0
    /\ step_hours = 1
    /\ current_cutoff = 0
    /\ cutoffs = << >>

\* a script runs: the application modules are not in play
AppIdle == DataManagerIdle /\ DownloadIdle /\ RunnerIdle /\ ForecastIdle

\* the raw data behind a series of the sweep: every reduced price is its own
\* block (a window of one sample)
WindowOfOne ==
    /\ ma_window_size = 1
    /\ price = price_avg
    /\ time = time_of(Len(price_avg))
    /\ time_avg = IF impl = "scheduled_procurement"
                  THEN time_avg_sp(time, ma_window_size)
                  ELSE time_avg_modelling(time, ma_window_size)

Init ==
    /\ impl \in Impls
    /\ \/ /\ price_avg \in SeqsUpTo(Prices, MaxLen)
          /\ mwhs \in Volumes
          /\ limit \in Limits
          /\ n_parts_list \in NLists
       \/ /\ price_avg = ScenarioPrices
          /\ mwhs = mwhs_default
          /\ limit = limit_default
          /\ n_parts_list = <<1>>
    /\ WindowOfOne
    /\ AppIdle
    /\ pc = "sweep"
    /\ loop = FirstLoop(impl)
    /\ k = 1
    /\ n_parts = 0
    /\ parts = << >>
    /\ p = 0
    /\ i = 0
    /\ ref = 0
    /\ buy_indic = << >>
    /\ total_price = ZeroTotal
    /\ reads = << >>
    /\ results_cache = EmptyDict
    /\ plotted = << >>
    /\ total_prices = << >>
    /\ err = "none"

\* an exception leaves the script: nothing after it runs
Raise(name) ==
    /\ pc' = "raised"
    /\ err' = name

\* ------------------------------------------------------- the sweep loops
\* Does the running loop call sched_proc?  modelling.py calls it in both of
\* its loops; scheduled_procurement.py only in the loop that fills
\* results_cache.
LoopCalls == impl = "modelling" \/ loop = "cost"

\* the call starts at the segment counter the pass before it left
SweepCall_keeps_p ==
    /\ pc = "sweep"
    /\ LoopCalls
    /\ k <= Len(n_parts_list)
    /\ n_parts' = LoopOrder[k]
    /\ parts' = << >>
    /\ i' = 0
    /\ ref' = 0
    /\ buy_indic' = << >>
    /\ total_price' = ZeroTotal
    /\ reads' = << >>
    /\ pc' = "call"
    /\ UNCHANGED <<inputs, outputs, loop, k, err, p>>

\* the call starts with the buy_indic the pass before it left
SweepCall_keeps_buy_indic ==
    /\ pc = "sweep"
    /\ LoopCalls
    /\ k <= Len(n_parts_list)
    /\ n_parts' = LoopOrder[k]
    /\ parts' = << >>
    /\ p' = 0
    /\ i' = 0
    /\ ref' = 0
    /\ total_price' = ZeroTotal
    /\ reads' = << >>
    /\ pc' = "call"
    /\ UNCHANGED <<inputs, outputs, loop, k, err, buy_indic>>

\* for n_parts in n_parts_list: ... sched_proc(price=price_avg, ..., n_parts=n_parts)
SweepCall ==
    /\ pc = "sweep"
    /\ LoopCalls
    /\ k <= Len(n_parts_list)
    /\ n_parts' = LoopOrder[k]
    /\ parts' = << >>
    /\ p' = 0
    /\ i' = 0
    /\ ref' = 0
    /\ buy_indic' = << >>
    /\ total_price' = ZeroTotal
    /\ reads' = << >>
    /\ pc' = "call"
    /\ UNCHANGED <<inputs, outputs, loop, k, err>>

\* ------------------------------------------------------------- sched_proc
\* scheduled_procurement.py: parts = np.linspace(0, price_len, n_parts + 1, dtype=int)
\* (linspace raises ValueError for a negative number of samples)
Parts_sp ==
    /\ pc = "call"
    /\ impl = "scheduled_procurement"
    /\ IF n_parts + 1 < 0
       THEN /\ Raise("ValueError")
            /\ UNCHANGED parts
       ELSE /\ parts' = [j \in 1..(n_parts + 1) |->
                            linspace(Len(price_avg), n_parts, j - 1)]
            /\ pc' = "for_p"
            /\ UNCHANGED err
    /\ UNCHANGED <<inputs, outputs, loop, k, n_parts, p, i, ref, buy_indic,
                   total_price, reads>>

\* modelling.py: parts = [int(n/n_parts * len(price)) for n in range(n_parts+1)]
\* (n / 0 raises ZeroDivisionError; range(n_parts + 1) is empty for n_parts < 0)
Parts_mod ==
    /\ pc = "call"
    /\ impl = "modelling"
    /\ IF n_parts = 0
       THEN /\ Raise("ZeroDivisionError")
            /\ UNCHANGED parts
       ELSE /\ parts' = [j \in 1..(n_parts + 1) |->
                            parts_modelling(Len(price_avg), n_parts, j - 1)]
            /\ pc' = "for_p"
            /\ UNCHANGED err
    /\ UNCHANGED <<inputs, outputs, loop, k, n_parts, p, i, ref, buy_indic,
                   total_price, reads>>

\* the segments the loop still has to visit:
\* for p in range(n_parts)  /  for p in range(len(parts)-1)
SegmentLeft ==
    IF impl = "scheduled_procurement"
    THEN p \in range(n_parts)
    ELSE p \in range(Len(parts) - 1)

start_idx == At(parts, p)
end_idx == At(parts, p + 1)

\* start_idx > end_idx
IsEmptySegment_strict == start_idx > end_idx

\* scheduled_procurement.py: start_idx >= end_idx
IsEmptySegment == start_idx >= end_idx

\* scheduled_procurement.py: if start_idx >= end_idx: continue
SkipEmpty ==
    /\ pc = "for_p"
    /\ impl = "scheduled_procurement"
    /\ SegmentLeft
    /\ IsEmptySegment
    /\ p' = p + 1
    /\ UNCHANGED <<inputs, outputs, pc, loop, k, n_parts, parts, i, ref,
                   buy_indic, total_price, reads, err>>

\* scheduled_procurement.py: ref = price[start_idx]; segment = price[start_idx:end_idx]
\* modelling.py:             ref = price[parts[p]]; i = parts[p]
\* (modelling.py has no test for an empty segment)
EnterSegment ==
    /\ pc = "for_p"
    /\ SegmentLeft
    /\ impl = "scheduled_procurement" => ~IsEmptySegment
    /\ IF IndexError(price_avg, start_idx)
       THEN /\ Raise("IndexError")
            /\ UNCHANGED <<ref, reads, i>>
       ELSE /\ ref' = At(price_avg, start_idx)
            /\ reads' = Append(reads, [seg |-> p, idx |-> start_idx])
            /\ i' = start_idx
            /\ pc' = "scan"
            /\ UNCHANGED err
    /\ UNCHANGED <<inputs, outputs, loop, k, n_parts, parts, p, buy_indic,
                   total_price>>

\* the scan stops one index short of the segment's end
ScanLeft_short == i < end_idx - 1

\* the scan loop has an index left:
\* for i, current_price in enumerate(segment)  /  while (i < parts[p+1])
ScanLeft == i < end_idx

\* if current_price > (ref + limit): buy_indic.append(actual_idx); break
Trigger ==
    /\ pc = "scan"
    /\ ScanLeft
    /\ Triggers(At(price_avg, i), ref, limit)
    /\ reads' = Append(reads, [seg |-> p, idx |-> i])
    /\ buy_indic' = Append(buy_indic, i)
    /\ p' = p + 1
    /\ pc' = "for_p"
    /\ UNCHANGED <<inputs, outputs, loop, k, n_parts, parts, i, ref,
                   total_price, err>>

\* if current_price < ref: ref = current_price
Ratchet ==
    /\ pc = "scan"
    /\ ScanLeft
    /\ ~Triggers(At(price_avg, i), ref, limit)
    /\ Ratchets(At(price_avg, i), ref)
    /\ reads' = Append(reads, [seg |-> p, idx |-> i])
    /\ ref' = At(price_avg, i)
    /\ i' = i + 1
    /\ UNCHANGED <<inputs, outputs, pc, loop, k, n_parts, parts, p, buy_indic,
                   total_price, err>>

\* neither test holds: the scan moves on
Hold ==
    /\ pc = "scan"
    /\ ScanLeft
    /\ ~Triggers(At(price_avg, i), ref, limit)
    /\ ~Ratchets(At(price_avg, i), ref)
    /\ reads' = Append(reads, [seg |-> p, idx |-> i])
    /\ i' = i + 1
    /\ UNCHANGED <<inputs, outputs, pc, loop, k, n_parts, parts, p, ref,
                   buy_indic, total_price, err>>

\* the scan loop ends without a break: the next segment
Exhausted ==
    /\ pc = "scan"
    /\ ~ScanLeft
    /\ p' = p + 1
    /\ pc' = "for_p"
    /\ UNCHANGED <<inputs, outputs, loop, k, n_parts, parts, i, ref, buy_indic,
                   total_price, reads, err>>

\* the segment loop is over
SegmentsDone ==
    /\ pc = "for_p"
    /\ ~SegmentLeft
    /\ pc' = "total"
    /\ UNCHANGED <<inputs, outputs, loop, k, locals, err>>

\* the whole volume is split over the segments that executed:
\* np.sum(price[buy_indic] * (mwhs / len(buy_indic)))
total_redistributed(im, pr, idxs, vol, N) ==
    IF idxs = << >> THEN ZeroTotal
    ELSE [num |-> vol * SumAt(pr, idxs), den |-> Len(idxs)]

\* the total sched_proc returns
\* scheduled_procurement.py: if buy_indic: np.sum(...) else: 0.0
\* modelling.py:             np.sum(price[buy_indic]*(mwhs/n_parts))
total_of(im, pr, idxs, vol, N) ==
    IF im = "scheduled_procurement" /\ idxs = << >>
    THEN ZeroTotal
    ELSE SumTotal(pr, idxs, vol, N)

Total ==
    /\ pc = "total"
    /\ total_price' = total_of(impl, price_avg, buy_indic, mwhs, n_parts)
    /\ pc' = "return"
    /\ UNCHANGED <<inputs, outputs, loop, k, n_parts, parts, p, i, ref,
                   buy_indic, reads, err>>

\* ------------------------------------------------ what the sweep keeps
\* scheduled_procurement.py: results_cache[n_parts] = (buy_indic, total_price)
Return_cache ==
    /\ pc = "return"
    /\ impl = "scheduled_procurement"
    /\ results_cache' = DictSet(results_cache, n_parts, <<buy_indic, total_price>>)
    /\ k' = k + 1
    /\ pc' = "sweep"
    /\ UNCHANGED <<inputs, locals, loop, plotted, total_prices, err>>

\* modelling.py, first loop: ax.plot(time_avg[buy_indic], price_avg[buy_indic], ...)
Return_plot ==
    /\ pc = "return"
    /\ impl = "modelling"
    /\ loop = "plot"
    /\ plotted' = Append(plotted, <<n_parts, buy_indic>>)
    /\ k' = k + 1
    /\ pc' = "sweep"
    /\ UNCHANGED <<inputs, locals, loop, results_cache, total_prices, err>>

\* modelling.py, second loop: total_prices.append(total_price)
Return_cost ==
    /\ pc = "return"
    /\ impl = "modelling"
    /\ loop = "cost"
    /\ total_prices' = Append(total_prices, total_price)
    /\ k' = k + 1
    /\ pc' = "sweep"
    /\ UNCHANGED <<inputs, locals, loop, results_cache, plotted, err>>

\* scheduled_procurement.py, plot loop:
\* for n_parts in reversed(n_parts_list): buy_indic, total_price = results_cache[n_parts]
PlotFromCache ==
    /\ pc = "sweep"
    /\ ~LoopCalls
    /\ k <= Len(n_parts_list)
    /\ plotted' = Append(plotted, <<LoopOrder[k], results_cache[LoopOrder[k]][1]>>)
    /\ k' = k + 1
    /\ UNCHANGED <<inputs, locals, pc, loop, results_cache, total_prices, err>>

\* the first loop of a script is over: its second loop starts
NextLoop ==
    /\ pc = "sweep"
    /\ k > Len(n_parts_list)
    /\ loop = FirstLoop(impl)
    /\ loop' = IF loop = "cost" THEN "plot" ELSE "cost"
    /\ k' = 1
    /\ UNCHANGED <<inputs, locals, outputs, pc, err>>

\* scheduled_procurement.py:
\* total_prices = [results_cache[n_parts][1] for n_parts in n_parts_list]
BuildTotalPrices ==
    /\ pc = "sweep"
    /\ k > Len(n_parts_list)
    /\ impl = "scheduled_procurement"
    /\ loop = "plot"
    /\ total_prices' = [j \in 1..Len(n_parts_list) |-> results_cache[n_parts_list[j]][2]]
    /\ pc' = "done"
    /\ UNCHANGED <<inputs, locals, loop, k, results_cache, plotted, err>>

\* modelling.py: the second loop is over
Finish ==
    /\ pc = "sweep"
    /\ k > Len(n_parts_list)
    /\ impl = "modelling"
    /\ loop = "cost"
    /\ pc' = "done"
    /\ UNCHANGED <<inputs, locals, outputs, loop, k, err>>

Next ==
    \/ SweepCall
    \/ Parts_sp
    \/ Parts_mod
    \/ SkipEmpty
    \/ EnterSegment
    \/ Trigger
    \/ Ratchet
    \/ Hold
    \/ Exhausted
    \/ SegmentsDone
    \/ Total
    \/ Return_cache
    \/ Return_plot
    \/ Return_cost
    \/ PlotFromCache
    \/ NextLoop
    \/ BuildTotalPrices
    \/ Finish

Spec == Init /\ [][Next]_vars

TypeOK ==
    /\ pc \in {"ma_window_size", "time_avg", "price_avg", "preprocessed",
              "sweep", "call", "for_p", "scan", "total", "return", "done", "raised"}
    /\ err \in {"none", "ValueError", "ZeroDivisionError", "IndexError"}
    /\ (pc = "raised") = (err # "none")

\* ---------------------------------------------------- what the claims use
\* sched_proc has computed parts and has not left the call
InCall == pc \in {"for_p", "scan", "total", "return"}

\* sched_proc is about to hand back (buy_indic, total_price)
Returning == pc = "return"

L == Len(price_avg)

\* segment q of the running call, q in range(n_parts): [SegStart(q), SegEnd(q))
SegStart(q) == At(parts, q)
SegEnd(q) == At(parts, q + 1)
SegIndices(q) == SegStart(q)..(SegEnd(q) - 1)
Segments == range(n_parts)

\* the segment loop has finished segment q
Completed(q) == q < p

SetMin(S) == CHOOSE x \in S : \A y \in S : x <= y

\* the lowest price among price[start..idx-1], price[start] for idx = start
LowestBefore(start, idx) ==
    IF idx = start THEN At(price_avg, start)
    ELSE SetMin({At(price_avg, j) : j \in start..(idx - 1)})

\* the indices of segment q whose price exceeds the lowest price before them by
\* more than limit
Qualifying(q) ==
    {idx \in SegIndices(q) :
        At(price_avg, idx) > LowestBefore(SegStart(q), idx) + limit}

\* the positions of buy_indic that hold an index of segment q
BuysIn(q) == {j \in 1..Len(buy_indic) : buy_indic[j] \in SegIndices(q)}

\* the reads the segment loop made for segment q
ReadsOf(q) == {j \in 1..Len(reads) : reads[j].seg = q}

\* the price segment q bought at, 0 when it bought nothing
SegPrice(q) ==
    IF BuysIn(q) = {} THEN 0 ELSE At(price_avg, buy_indic[SetMin(BuysIn(q))])

RECURSIVE SumSegPrice(_)
\* the sum of SegPrice(q) over the segments q of S
SumSegPrice(S) ==
    IF S = {} THEN 0
    ELSE LET q == CHOOSE x \in S : TRUE IN SegPrice(q) + SumSegPrice(S \ {q})

\* ------------------------------------------------------------------- C1
\* C1 (partition exactness): in every call with n_parts >= 1, whatever the
\* length of the series, parts holds n_parts + 1 boundaries, every range
\* [parts[q], parts[q+1]) lies inside [0, L), and every index of [0, L)
\* belongs to exactly one of the n_parts ranges: no gap, no overlap.
C1_PartitionExact ==
    (InCall /\ n_parts >= 1) =>
        /\ Len(parts) = n_parts + 1
        /\ \A q \in Segments : SegIndices(q) \subseteq 0..(L - 1)
        /\ \A idx \in 0..(L - 1) :
              Cardinality({q \in Segments : idx \in SegIndices(q)}) = 1

\* a call that cuts a series of three prices into two unequal segments
C1_Witness ==
    /\ pc = "scan"
    /\ L = 3
    /\ n_parts = 2
    /\ parts = <<0, 1, 3>>

\* ------------------------------------------------------------------- C2
\* C2 (trigger bound): every step that records an execution index records
\* the index i under examination, an index of the running segment, and at
\* that moment price[i] > ref + limit, ref being the reference price the
\* step found.
C2_TriggerBound ==
    [][ Len(buy_indic') > Len(buy_indic) =>
            /\ buy_indic' = Append(buy_indic, i)
            /\ i \in SegIndices(p)
            /\ At(price_avg, i) > ref + limit ]_vars

\* an execution was just recorded against a reference that had ratcheted
\* below the segment's first price
C2_Witness ==
    /\ pc = "for_p"
    /\ buy_indic # << >>
    /\ buy_indic[Len(buy_indic)] = i
    /\ p >= 1
    /\ i \in SegIndices(p - 1)
    /\ ref < At(price_avg, SegStart(p - 1))
    /\ At(price_avg, i) > ref + limit

\* ------------------------------------------------------------------- C3
\* C3 (first-trigger policy): for every finished segment, the recorded
\* index is the smallest qualifying index of the segment and the only index
\* recorded for it; a segment without a qualifying index records nothing;
\* buy_indic holds nothing else; and no index after the first qualifying
\* one is ever read.
C3_FirstTrigger ==
    (InCall /\ n_parts >= 1) =>
        /\ \A q \in Segments : Completed(q) =>
              IF Qualifying(q) = {}
              THEN BuysIn(q) = {}
              ELSE /\ Cardinality(BuysIn(q)) = 1
                   /\ \A j \in BuysIn(q) : buy_indic[j] = SetMin(Qualifying(q))
        /\ \A j \in 1..Len(buy_indic) :
              \E q \in Segments : Completed(q) /\ j \in BuysIn(q)
        /\ \A j \in 1..Len(reads) :
              Qualifying(reads[j].seg) # {} =>
                  reads[j].idx <= SetMin(Qualifying(reads[j].seg))

\* a returned call with an execution that came only after the reference had
\* ratcheted: two indices of the segment were passed over before it
C3_Witness ==
    /\ Returning
    /\ n_parts >= 1
    /\ \E q \in Segments :
          /\ BuysIn(q) # {}
          /\ SetMin(Qualifying(q)) >= SegStart(q) + 2
          /\ At(price_avg, SetMin(Qualifying(q))) <= At(price_avg, SegStart(q)) + limit

\* ------------------------------------------------------------------- C4
\* C4 (reference monotonic non-increase): from one step of a segment's scan
\* to the next the reference price never increases; entering a segment sets
\* it to the segment's first price; and when an execution is recorded the
\* reference is at most the segment's first price.
C4_ReferenceNonIncreasing ==
    [][ /\ (pc = "scan" /\ pc' = "scan") => ref' <= ref
        /\ (pc = "for_p" /\ pc' = "scan") => ref' = At(price_avg, SegStart(p))
        /\ Len(buy_indic') > Len(buy_indic) => ref <= At(price_avg, SegStart(p)) ]_vars

\* the scan of a second segment, its reference already below the segment's
\* first price
C4_Witness ==
    /\ pc = "scan"
    /\ p >= 1
    /\ i > SegStart(p)
    /\ ref < At(price_avg, SegStart(p))

\* ------------------------------------------------------------------- C5
\* C5 (cost aggregation): a call with n_parts >= 1 returns a total with
\* n_parts * total = mwhs * (the sum of the prices at the recorded execution
\* indices), which is 0 when nothing was recorded.
C5_CostAggregation ==
    (Returning /\ n_parts >= 1) =>
        /\ total_price.den # 0
        /\ total_price.num * n_parts
              = mwhs * SumAt(price_avg, buy_indic) * total_price.den
        /\ buy_indic = << >> => total_price.num = 0

\* a call of two or more segments returns with two recorded executions and
\* a total above zero
C5_Witness ==
    /\ Returning
    /\ n_parts >= 2
    /\ Len(buy_indic) >= 2
    /\ total_price.num > 0

\* ------------------------------------------------------------------- C6
\* C6 (non-redistribution): when a call with n_parts >= 1 returns, every
\* segment holds at most one recorded execution, a segment without a
\* qualifying index holds none, the number k of executions is at most
\* n_parts and equals n_parts only if every segment executed (so the volume
\* bought, k * mwhs / n_parts, never exceeds mwhs), and the total is the sum
\* over the segments of mwhs / n_parts times the segment's execution price,
\* a segment without execution adding 0: its tranche is bought nowhere else.
C6_NonRedistribution ==
    (Returning /\ n_parts >= 1) =>
        /\ \A q \in Segments : Cardinality(BuysIn(q)) <= 1
        /\ \A q \in Segments : Qualifying(q) = {} => BuysIn(q) = {}
        /\ Len(buy_indic) <= n_parts
        /\ Len(buy_indic) = n_parts => \A q \in Segments : BuysIn(q) # {}
        /\ Len(buy_indic) * mwhs <= n_parts * mwhs
        /\ total_price.num * n_parts
              = total_price.den * mwhs * SumSegPrice(Segments)

\* a returned call in which one segment executed at a price above zero and
\* another, not empty, found no trigger
C6_Witness ==
    /\ Returning
    /\ n_parts >= 2
    /\ \E q \in Segments : BuysIn(q) # {} /\ SegPrice(q) > 0
    /\ \E q \in Segments : SegIndices(q) # {} /\ Qualifying(q) = {} /\ BuysIn(q) = {}

\* ------------------------------------------------------------------- C7
\* more segments than prices, the series not empty
DegenerateN == n_parts > L /\ L >= 1

\* the zero-length segments of the running call
EmptySegments == {q \in Segments : SegStart(q) >= SegEnd(q)}

\* what both readings of C7 share: the call does not raise, has a zero-length
\* segment, records at most one execution per finished segment that is not
\* empty, and returns a total made of the other segments' prices only
DegenerateHarmless ==
    /\ pc # "raised"
    /\ InCall =>
          /\ EmptySegments # {}
          /\ Len(buy_indic)
                <= Cardinality({q \in Segments \ EmptySegments : Completed(q)})
    /\ Returning =>
          total_price.num * n_parts
             = total_price.den * mwhs * SumSegPrice(Segments \ EmptySegments)

\* C7 as stated (degenerate N): when n_parts > L >= 1, some segment has zero
\* length, no price is read for a zero-length segment, it records no
\* execution and adds no cost, and the call does not raise.
C7_NoReadForEmptySegment ==
    DegenerateN =>
        /\ DegenerateHarmless
        /\ InCall => \A q \in EmptySegments : ReadsOf(q) = {}

\* C7 as amended (degenerate N): when n_parts > L >= 1, some segment has zero
\* length, a zero-length segment never has an index scanned, records no
\* execution and adds no cost, and the call does not raise;
\* scheduled_procurement.py reads no price for it, modelling.py reads at most
\* price[start], once, an index inside the series, to set its reference.
C7_DegenerateN ==
    DegenerateN =>
        /\ DegenerateHarmless
        /\ InCall => \A q \in EmptySegments :
              IF impl = "scheduled_procurement"
              THEN ReadsOf(q) = {}
              ELSE /\ Cardinality(ReadsOf(q)) <= 1
                   /\ \A j \in ReadsOf(q) :
                         reads[j].idx = SegStart(q) /\ reads[j].idx < L

\* a degenerate call returns: a zero-length segment lies before a segment
\* that executed
C7_Witness ==
    /\ Returning
    /\ DegenerateN
    /\ buy_indic # << >>
    /\ \E q \in EmptySegments : \E j \in 1..Len(buy_indic) : SegStart(q) <= buy_indic[j]

\* ------------------------------------------------------------------- C8
\* C8 (empty series): a call over a series of length zero with n_parts >= 1
\* never reaches its return: it hands back neither a plan nor a cost.
C8_EmptySeriesFails ==
    (L = 0 /\ n_parts >= 1) => ~Returning

\* ------------------------------------------------------------------- C9
\* C9 (invalid partition count): a call with n_parts <= 0 never reaches its
\* return, so whatever returns was called with n_parts >= 1.
C9_InvalidNFails ==
    Returning => n_parts >= 1

\* ------------------------------------------------------------------ C10
\* the script is over, by its last statement or by an exception
Ended == pc \in {"done", "raised"}

\* the sweep result holds an entry for the j-th requested N
InSweepResult(j) ==
    IF impl = "scheduled_procurement"
    THEN n_parts_list[j] \in DOMAIN results_cache
    ELSE j <= Len(total_prices)

\* a sweep over a series that is not empty, of two or more N, one of them a
\* partition count of at least 1
SweepOfSeveral ==
    /\ L >= 1
    /\ Len(n_parts_list) >= 2
    /\ \E j \in 1..Len(n_parts_list) : n_parts_list[j] >= 1

\* C10 (sweep failure isolation): when a script that sweeps several N is
\* over, the sweep result holds an entry for every N of n_parts_list: the N
\* whose pass failed, and every other N, whose pass the failure did not stop.
C10_SweepIsolation ==
    (Ended /\ SweepOfSeveral) =>
        \A j \in 1..Len(n_parts_list) : InSweepResult(j)

\* ------------------------------------------------------------------ C11
\* the stored pass for a: a valid partition count, no segment of zero
\* length, and no segment found a trigger
NoTriggerPass(a) ==
    /\ a >= 1
    /\ a <= L
    /\ results_cache[a][1] = << >>

\* the stored pass for b: an invalid partition count, an empty series, or a
\* partition with a zero-length segment
ErrorOrDegeneratePass(b) == b <= 0 \/ L = 0 \/ b > L

\* C11 (no-trigger versus error): what a pass hands to the sweep tells a pass
\* whose segments all ended without a trigger apart from a pass under an
\* error condition or with a zero-length segment: the two are never stored
\* as the same output.
C11_NoTriggerDistinguishable ==
    \A a \in DOMAIN results_cache : \A b \in DOMAIN results_cache :
        (NoTriggerPass(a) /\ ErrorOrDegeneratePass(b)) =>
            results_cache[a] # results_cache[b]

\* ------------------------------------------- the result a pass should have
\* boundary(q) = floor(q * len / N)
Boundary(len, N, q) == (q * len) \div N

\* the indices of [start, end) whose price exceeds the lowest price before
\* them by more than limit
QualifyingIn(start, end) ==
    {idx \in start..(end - 1) :
        At(price_avg, idx) > LowestBefore(start, idx) + limit}

RECURSIVE ExpectedFrom(_, _)
\* the first qualifying index of each of the segments q..N-1 that has one
ExpectedFrom(N, q) ==
    IF q >= N THEN << >>
    ELSE LET Q == QualifyingIn(Boundary(L, N, q), Boundary(L, N, q + 1))
         IN  (IF Q = {} THEN << >> ELSE <<SetMin(Q)>>) \o ExpectedFrom(N, q + 1)

\* the execution indices of a pass with N segments, a function of the series,
\* the limit and N alone
ExpectedBuys(N) == IF N <= 0 THEN << >> ELSE ExpectedFrom(N, 0)

\* the fraction t is the cost of a pass with N segments, a function of the
\* series, the volume, the limit and N alone
IsExpectedCost(t, N) ==
    /\ t.den # 0
    /\ IF N <= 0 THEN t.num = 0
       ELSE t.num * N = t.den * mwhs * SumAt(price_avg, ExpectedBuys(N))

\* two fractions of the same value
SameValue(t, u) == t.num * u.den = u.num * t.den

\* ------------------------------------------------------------------ C12
\* C12 (sweep ordering and completeness): when the script has run to its
\* end, total_prices holds one cost per entry of n_parts_list, and its j-th
\* cost is the cost of the pass for the j-th entry: the curve is in the
\* order of the list.
C12_SweepOrdered ==
    pc = "done" =>
        /\ Len(total_prices) = Len(n_parts_list)
        /\ \A j \in 1..Len(n_parts_list) :
              IsExpectedCost(total_prices[j], n_parts_list[j])

\* a finished sweep over two partition counts whose costs differ
C12_Witness ==
    /\ pc = "done"
    /\ Len(n_parts_list) = 2
    /\ n_parts_list[1] >= 1
    /\ n_parts_list[2] >= 1
    /\ Len(total_prices) = 2
    /\ ~SameValue(total_prices[1], total_prices[2])

\* ------------------------------------------------------------------ C13
\* C13 (per-N independence): whenever a call returns, in whichever loop, at
\* whichever place of whichever list and after whichever passes, its
\* execution indices and its total are those the series, the volume, the
\* limit and its own n_parts determine; and no step changes the series.
C13_PerNIndependent ==
    [][ /\ pc' = "return" =>
              /\ buy_indic' = ExpectedBuys(n_parts')
              /\ IsExpectedCost(total_price', n_parts')
        /\ price_avg' = price_avg ]_vars

\* the second pass of a sweep returns executions, after a first pass with
\* another partition count that recorded executions too
C13_Witness ==
    /\ Returning
    /\ k = 2
    /\ n_parts >= 1
    /\ buy_indic # << >>
    /\ LoopOrder[1] # n_parts
    /\ LoopOrder[1] >= 1
    /\ ExpectedBuys(LoopOrder[1]) # << >>
    /\ ExpectedBuys(LoopOrder[1]) # buy_indic

\* ------------------------------------------------------------------ C14
\* C14 (determinism): a pass that is run a second time on the same series,
\* limit, volume and n_parts returns what the first returned.  In
\* scheduled_procurement.py a list naming an n_parts twice calls sched_proc
\* twice for it, and the second result equals the cached first one; in
\* modelling.py the whole sweep runs twice, and each pass of the cost loop
\* returns the indices that the plot loop drew for the same list entry; equal
\* entries of the list get equal costs.
C14_Deterministic ==
    /\ (Returning /\ impl = "scheduled_procurement"
            /\ n_parts \in DOMAIN results_cache) =>
          results_cache[n_parts] = <<buy_indic, total_price>>
    /\ (Returning /\ impl = "modelling" /\ loop = "cost") =>
          plotted[Len(n_parts_list) + 1 - k] = <<n_parts, buy_indic>>
    /\ pc = "done" =>
          \A a \in 1..Len(total_prices) : \A b \in 1..Len(total_prices) :
              n_parts_list[a] = n_parts_list[b] =>
                  total_prices[a] = total_prices[b]

\* a second pass returns, with an execution, for an n_parts that already
\* had a pass
C14_Witness ==
    /\ Returning
    /\ buy_indic # << >>
    /\ \/ impl = "scheduled_procurement" /\ n_parts \in DOMAIN results_cache
       \/ impl = "modelling" /\ loop = "cost"

\* ------------------------------------------------------------------ C15
RECURSIVE GlobalScan(_, _)
\* one scan of the indices idx..L-1 of the whole series with the reference
\* lowest: the first index whose price exceeds the reference by more than
\* limit, the reference following every lower price on the way
GlobalScan(idx, lowest) ==
    IF idx >= L THEN << >>
    ELSE IF At(price_avg, idx) > lowest + limit THEN <<idx>>
    ELSE GlobalScan(idx + 1,
                    IF At(price_avg, idx) < lowest THEN At(price_avg, idx)
                    ELSE lowest)

\* C15 (N=1 reduction): a call with n_parts = 1 returns what one scan over
\* the whole series [0, L) with a single reference returns: at most one
\* execution index, the first that triggers, and the total is the price
\* there times the volume, or 0 when nothing triggered.
C15_SingleScan ==
    (Returning /\ n_parts = 1 /\ L >= 1) =>
        /\ buy_indic = GlobalScan(0, At(price_avg, 0))
        /\ Len(buy_indic) <= 1
        /\ buy_indic = << >> => total_price.num = 0
        /\ buy_indic # << >> =>
              total_price.num = total_price.den * mwhs * At(price_avg, buy_indic[1])

\* a call with n_parts = 1 returns an execution found after the reference
\* went down
C15_Witness ==
    /\ Returning
    /\ n_parts = 1
    /\ Len(buy_indic) = 1
    /\ buy_indic[1] >= 2
    /\ At(price_avg, 1) < At(price_avg, 0)
    /\ total_price.num > 0

\* ------------------------------------------------------------------ C16
\* the call runs on the worked example with one segment
InScenario ==
    /\ price_avg = ScenarioPrices
    /\ limit = limit_default
    /\ mwhs = mwhs_default
    /\ InCall
    /\ n_parts = 1

\* C16 (concrete scenario): for prices [100, 90, 80, 95, 70, 85, 110],
\* limit 10, one segment and volume 1000 the reference is 100 when index 1
\* is examined, 90 at index 2 and 80 at index 3, the scan never passes
\* index 3, and the call returns the single execution index 3, whose price
\* is 95, and the total 95000.
C16_Scenario ==
    InScenario =>
        /\ pc = "scan" =>
              /\ i \in 0..3
              /\ ref = <<100, 100, 90, 80>>[i + 1]
        /\ Returning =>
              /\ buy_indic = <<3>>
              /\ At(price_avg, buy_indic[1]) = 95
              /\ ref = 80
              /\ total_price.num = 95000 * total_price.den

\* the call on the worked example returns
C16_Witness == InScenario /\ Returning /\ Len(reads) >= 4

\* ------------------------------------------------------------------ C17
\* The boundary computation alone, on longer series and larger partition
\* counts than the scans can be explored with: one call per run, stopped
\* when parts is known.  The prices play no part in parts.
MaxBoundaryLen == 30     \* longest series of a boundary computation
MaxBoundaryN == 22       \* largest n_parts of a boundary computation

BoundaryInit ==
    /\ impl \in Impls
    /\ \E len \in 0..MaxBoundaryLen : price_avg = [j \in 1..len |-> 0]
    /\ WindowOfOne
    /\ AppIdle
    /\ mwhs = mwhs_default
    /\ limit = limit_default
    /\ \E N \in 1..MaxBoundaryN : n_parts_list = <<N>>
    /\ pc = "sweep"
    /\ loop = FirstLoop(impl)
    /\ k = 1
    /\ n_parts = 0
    /\ parts = << >>
    /\ p = 0
    /\ i = 0
    /\ ref = 0
    /\ buy_indic = << >>
    /\ total_price = ZeroTotal
    /\ reads = << >>
    /\ results_cache = EmptyDict
    /\ plotted = << >>
    /\ total_prices = << >>
    /\ err = "none"

BoundaryNext ==
    \/ SweepCall
    \/ Parts_sp
    \/ Parts_mod

BoundarySpec == BoundaryInit /\ [][BoundaryNext]_vars

\* C17 (boundary formula): for every N >= 1 and L >= 0 the boundaries of a
\* call are parts[q] = floor(q * L / N) for q = 0..N, so parts[0] = 0,
\* parts[N] = L, the boundaries never decrease and any two segment lengths
\* differ by at most one.
C17_BoundaryFormula ==
    (InCall /\ n_parts >= 1) =>
        /\ Len(parts) = n_parts + 1
        /\ \A q \in 0..n_parts : At(parts, q) = Boundary(L, n_parts, q)
        /\ At(parts, 0) = 0
        /\ At(parts, n_parts) = L
        /\ \A q \in Segments : SegStart(q) <= SegEnd(q)
        /\ \A q \in Segments : \A r \in Segments :
              (SegEnd(q) - SegStart(q)) - (SegEnd(r) - SegStart(r)) <= 1

\* ------------------------------------------------------- the preprocessor
\* The block averaging of the two scripts alone: one run reduces one raw
\* series.  Both scripts fix ma_window_size = 24; the slicing arithmetic is
\* the same for every window, and the runs here take small windows.
MaxRaw == 5        \* longest raw series
MaxWindow == 3     \* largest ma_window_size

PreInit ==
    /\ impl \in Impls
    /\ price \in SeqsUpTo(Prices, MaxRaw)
    /\ time = time_of(Len(price))
    /\ ma_window_size \in 1..MaxWindow
    /\ AppIdle
    /\ time_avg = << >>
    /\ price_avg = << >>
    /\ mwhs = mwhs_default
    /\ limit = limit_default
    /\ n_parts_list = << >>
    /\ pc = "ma_window_size"
    /\ loop = FirstLoop(impl)
    /\ k = 1
    /\ n_parts = 0
    /\ parts = << >>
    /\ p = 0
    /\ i = 0
    /\ ref = 0
    /\ buy_indic = << >>
    /\ total_price = ZeroTotal
    /\ reads = << >>
    /\ results_cache = EmptyDict
    /\ plotted = << >>
    /\ total_prices = << >>
    /\ err = "none"

\* scheduled_procurement.py:
\* price_avg_full = price_series.rolling(window=ma_window_size, center=False).mean().values
\* price_avg = price_avg_full[ma_window_size-1::ma_window_size]
PriceAvg_sp ==
    /\ pc = "ma_window_size"
    /\ impl = "scheduled_procurement"
    /\ price_avg' = Slice(rolling_mean(price, ma_window_size),
                          ma_window_size - 1, ma_window_size)
    /\ pc' = "time_avg"
    /\ UNCHANGED <<impl, raw, time_avg, mwhs, limit, n_parts_list, app,
                   locals, outputs, loop, k, err>>

\* scheduled_procurement.py: time_avg = time[ma_window_size-1::ma_window_size]
TimeAvg_sp ==
    /\ pc = "time_avg"
    /\ impl = "scheduled_procurement"
    /\ time_avg' = time_avg_sp(time, ma_window_size)
    /\ pc' = "preprocessed"
    /\ UNCHANGED <<impl, raw, price_avg, mwhs, limit, n_parts_list, app,
                   locals, outputs, loop, k, err>>

\* modelling.py: time_avg = time[::ma_window_size][:-1]
TimeAvg_mod ==
    /\ pc = "ma_window_size"
    /\ impl = "modelling"
    /\ time_avg' = time_avg_modelling(time, ma_window_size)
    /\ pc' = "price_avg"
    /\ UNCHANGED <<impl, raw, price_avg, mwhs, limit, n_parts_list, app,
                   locals, outputs, loop, k, err>>

\* modelling.py:
\* price_avg = np.convolve(price, np.ones(ma_window_size)/ma_window_size, mode='valid')[::ma_window_size]
\* np.convolve raises ValueError for an empty price
PriceAvg_mod ==
    /\ pc = "price_avg"
    /\ impl = "modelling"
    /\ IF price = << >>
       THEN /\ Raise("ValueError")
            /\ UNCHANGED price_avg
       ELSE /\ price_avg' = Slice(convolve_valid(price, ma_window_size),
                                  0, ma_window_size)
            /\ pc' = "preprocessed"
            /\ UNCHANGED err
    /\ UNCHANGED <<impl, raw, time_avg, mwhs, limit, n_parts_list, app,
                   locals, outputs, loop, k>>

PreNext ==
    \/ PriceAvg_sp
    \/ TimeAvg_sp
    \/ TimeAvg_mod
    \/ PriceAvg_mod

PreSpec == PreInit /\ [][PreNext]_vars

\* both reduced series are known
Preprocessed == pc = "preprocessed"

\* the window fits the raw series
WindowFits == 1 <= ma_window_size /\ ma_window_size <= Len(price)

\* the raw indices of block b: b*w .. b*w + w - 1
BlockIndices(b) == [j \in 1..ma_window_size |-> b * ma_window_size + j - 1]

\* ------------------------------------------------------------------ C19
\* C19 (block averaging): for a window w with 1 <= w <= L_raw the reduced
\* price series has exactly floor(L_raw / w) values and its b-th value is
\* the arithmetic mean of the raw samples b*w .. b*w + w - 1: the blocks do
\* not overlap and a trailing remainder shorter than w gives no value.
C19_BlockAveraging ==
    (Preprocessed /\ WindowFits) =>
        /\ Len(price_avg) = Len(price) \div ma_window_size
        /\ \A b \in 0..(Len(price_avg) - 1) :
              At(price_avg, b) =
                  [num |-> SumAt(price, BlockIndices(b)), den |-> ma_window_size]

\* two full blocks of two samples with different means, and a remainder
C19_Witness ==
    /\ Preprocessed
    /\ ma_window_size = 2
    /\ Len(price) = 5
    /\ Len(price_avg) = 2
    /\ price_avg[1] # price_avg[2]

\* ------------------------------------------------------------------ C20
\* C20 (preprocessor alignment): for every raw length L_raw and window w
\* with 1 <= w <= L_raw the reduced timestamps and the reduced prices have
\* the same length, also when L_raw is a multiple of w.
C20_Aligned ==
    (Preprocessed /\ WindowFits) => Len(time_avg) = Len(price_avg)

\* ------------------------------------------------------------------ C21
\* C21 (preprocessor timestamps): the timestamp attached to the b-th reduced
\* value is the timestamp of the first raw sample of block b, the raw
\* timestamp b*w.
C21_FirstTimestamp ==
    (Preprocessed /\ WindowFits) =>
        \A b \in 0..(Len(time_avg) - 1) :
            At(time_avg, b) = At(time, b * ma_window_size)

\* ------------------------------------------------------------------ C22
\* C22 (preprocessor window validation): preprocessing with a window that
\* does not fit the raw series (w <= 0 or w > L_raw) fails; it never ends
\* with a reduced series, not even an empty one.
C22_WindowValidated == ~WindowFits => ~Preprocessed

\* ------------------------------------------------------------ DataManager
\* an application module runs: the scripts are not in play
ScriptsIdle ==
    /\ price = << >>
    /\ time = << >>
    /\ ma_window_size = 1
    /\ time_avg = << >>
    /\ price_avg = << >>
    /\ mwhs = mwhs_default
    /\ limit = limit_default
    /\ n_parts_list = << >>
    /\ loop = "cost"
    /\ k = 1
    /\ n_parts = 0
    /\ parts = << >>
    /\ p = 0
    /\ i = 0
    /\ ref = 0
    /\ buy_indic = << >>
    /\ total_price = ZeroTotal
    /\ reads = << >>
    /\ results_cache = EmptyDict
    /\ plotted = << >>
    /\ total_prices = << >>

MaxCountries == 2      \* longest list of country codes
Countries == {"DE", "FR"}

\* DataManager(read_mode) has been constructed and analysis() is called.
\* __read_data skips the countries without a data file, so the keys of
\* self.__data are some of the country codes.
AnalysisInit ==
    /\ impl = "datamanager"
    /\ ScriptsIdle
    /\ country_codes \in SeqsUpTo(Countries, MaxCountries)
    /\ \E loaded \in BOOLEAN :
       \E keys \in SUBSET {country_codes[j] : j \in 1..Len(country_codes)} :
           /\ loaded = FALSE => keys = {}
           /\ data = [loaded |-> loaded, keys |-> keys]
    /\ unwritable \in SUBSET Countries
    /\ c = 1
    /\ log = << >>
    /\ saved = {}
    /\ features_file = FALSE
    /\ DownloadIdle
    /\ RunnerIdle
    /\ ForecastIdle
    /\ pc = "analysis"
    /\ err = "none"

scripts == <<impl, raw, time_avg, price_avg, mwhs, limit, n_parts_list, locals,
             outputs, loop, k>>

\* what analysis() leaves alone
beside_analysis == <<scripts, download, runner, forecast>>

\* analysis(): if self.__data is None: raise ValueError(...)
Analysis_NotLoaded ==
    /\ pc = "analysis"
    /\ ~data.loaded
    /\ Raise("ValueError")
    /\ UNCHANGED <<beside_analysis, datamanager>>

\* analysis(): for country_code in self.country_codes:
Analysis_Enter ==
    /\ pc = "analysis"
    /\ data.loaded
    /\ c' = 1
    /\ pc' = "for_country"
    /\ UNCHANGED <<beside_analysis, country_codes, data, unwritable, log, saved,
                   features_file, err>>

\* the country the loop is at
country_code == country_codes[c]

\* analysis_by_country_code: except Exception as e: logger.error(...), and
\* the method returns None: the loop of analysis() goes on
LoggedAndSwallowed ==
    /\ log' = Append(log, [level |-> "error", about |-> country_code])
    /\ c' = c + 1
    /\ pc' = "for_country"

\* analysis_by_country_code: df = self.__data[country_code]  (KeyError for a
\* country without data), then the moving-average run
Country_Lookup ==
    /\ pc = "for_country"
    /\ c <= Len(country_codes)
    /\ IF country_code \notin data.keys
       THEN /\ LoggedAndSwallowed
            /\ UNCHANGED err
       ELSE /\ pc' = "save_ma"
            /\ UNCHANGED <<log, c, err>>
    /\ UNCHANGED <<beside_analysis, country_codes, data, unwritable, saved, features_file>>

\* save_analysis: mkdir, to_csv; an OSError becomes a DataException
\* if 'MovingAverageAnalyzer' in ma_results: self.save_analysis(..., feature='ma')
Save_ma ==
    /\ pc = "save_ma"
    /\ \E in_results \in BOOLEAN :
          IF in_results /\ country_code \in unwritable
          THEN /\ LoggedAndSwallowed
               /\ UNCHANGED <<saved, err>>
          ELSE /\ saved' = IF in_results THEN saved \cup {<<country_code, "ma">>}
                           ELSE saved
               /\ pc' = "save_forecast"
               /\ UNCHANGED <<log, c, err>>
    /\ UNCHANGED <<beside_analysis, country_codes, data, unwritable, features_file>>

\* if 'ForecastAnalyzer' in forecast_results: self.save_analysis(..., feature='forecast')
Save_forecast ==
    /\ pc = "save_forecast"
    /\ \E in_results \in BOOLEAN :
          IF in_results /\ country_code \in unwritable
          THEN /\ LoggedAndSwallowed
               /\ UNCHANGED <<saved, err>>
          ELSE /\ saved' = IF in_results THEN saved \cup {<<country_code, "forecast">>}
                           ELSE saved
               /\ c' = c + 1
               /\ pc' = "for_country"
               /\ UNCHANGED <<log, err>>
    /\ UNCHANGED <<beside_analysis, country_codes, data, unwritable, features_file>>

\* analysis(): self.__update_features_file(); logger.info("Analysis completed
\* successfully").  __update_features_file logs its own failure and returns.
Analysis_Completed ==
    /\ pc = "for_country"
    /\ c > Len(country_codes)
    /\ \E written \in BOOLEAN : features_file' = written
    /\ log' = Append(log, [level |-> "info", about |-> "all"])
    /\ pc' = "done"
    /\ UNCHANGED <<beside_analysis, country_codes, data, unwritable, c, saved, err>>

AnalysisNext ==
    \/ Analysis_NotLoaded
    \/ Analysis_Enter
    \/ Country_Lookup
    \/ Save_ma
    \/ Save_forecast
    \/ Analysis_Completed

AnalysisSpec == AnalysisInit /\ [][AnalysisNext]_vars

\* the analysis of some country has failed
SomeCountryFailed == \E j \in 1..Len(log) : log[j].level = "error"

\* ------------------------------------------------------------------ C23
\* C23 (DataManager.analysis raises): when the analysis of a country has
\* failed, analysis() does not return normally: the failure reaches its
\* caller as an exception.
C23_AnalysisRaises == (SomeCountryFailed /\ pc = "done") => err # "none"

\* ----------------------------------------------- the two sched_proc compared
\* One call per run on longer series: a flat series, or a flat series with
\* one sample standing out by more than the limit, at the default volume and
\* at the default limit or its negative.
MaxEquivLen == 22      \* longest series of a comparison
MaxEquivN == 22        \* largest n_parts of a comparison

SpikeSeries(len) ==
    {[j \in 1..len |-> 0]} \cup
    {[j \in 1..len |-> IF j = s THEN 10 * limit_default ELSE 0] : s \in 1..len}

EquivInit ==
    /\ impl \in Impls
    /\ \E len \in 1..MaxEquivLen : price_avg \in SpikeSeries(len)
    /\ mwhs = mwhs_default
    /\ limit \in {limit_default, -limit_default}
    /\ \E N \in 1..MaxEquivN : n_parts_list = <<N>>
    /\ WindowOfOne
    /\ AppIdle
    /\ pc = "sweep"
    /\ loop = FirstLoop(impl)
    /\ k = 1
    /\ n_parts = 0
    /\ parts = << >>
    /\ p = 0
    /\ i = 0
    /\ ref = 0
    /\ buy_indic = << >>
    /\ total_price = ZeroTotal
    /\ reads = << >>
    /\ results_cache = EmptyDict
    /\ plotted = << >>
    /\ total_prices = << >>
    /\ err = "none"

EquivSpec == EquivInit /\ [][Next]_vars

\* the parts script im computes for a series of length len and N segments
PartsOf(im, len, N) ==
    [q \in 1..(N + 1) |->
        IF im = "scheduled_procurement" THEN linspace(len, N, q - 1)
        ELSE parts_modelling(len, N, q - 1)]

RECURSIVE BuysFrom(_, _, _)
\* the first qualifying index of each of the segments q..N-1 of pt
BuysFrom(pt, N, q) ==
    IF q >= N THEN << >>
    ELSE LET Q == QualifyingIn(At(pt, q), At(pt, q + 1))
         IN  (IF Q = {} THEN << >> ELSE <<SetMin(Q)>>) \o BuysFrom(pt, N, q + 1)

\* what the sched_proc of script im returns for the arguments of the running
\* call: its execution indices and its total
BuysOf(im) == BuysFrom(PartsOf(im, L, n_parts), n_parts, 0)
TotalOf(im) == total_of(im, price_avg, BuysOf(im), mwhs, n_parts)

OtherImpl == IF impl = "scheduled_procurement" THEN "modelling"
             ELSE "scheduled_procurement"

\* the running call returns what BuysOf and TotalOf say of its own script
ReturnsOwnResult ==
    (Returning /\ n_parts >= 1 /\ L >= 1) =>
        /\ buy_indic = BuysOf(impl)
        /\ total_price = TotalOf(impl)

\* ------------------------------------------------------------------ C24
\* C24 (implementation equivalence): for every series of length L >= 1 and
\* every N >= 1 the call of either script returns the execution indices and
\* the total that the sched_proc of the other script returns for the same
\* arguments.
C24_Equivalent ==
    (Returning /\ n_parts >= 1 /\ L >= 1) =>
        /\ buy_indic = BuysOf(OtherImpl)
        /\ SameValue(total_price, TotalOf(OtherImpl))

\* ------------------------------------------------------------------ C25
\* the segment of the running call that holds index idx
SegmentOf(idx) == CHOOSE q \in Segments : idx \in SegIndices(q)

\* C25 (no execution at a segment's start): for limit >= 0 every execution
\* index the sched_proc of scheduled_procurement.py returns lies strictly
\* after the start of its segment; so a segment of one element holds no
\* execution, and whenever N >= L the call returns no execution index and
\* the total 0.
C25_NeverAtSegmentStart ==
    (Returning /\ impl = "scheduled_procurement" /\ limit >= 0 /\ n_parts >= 1) =>
        /\ \A j \in 1..Len(buy_indic) :
              /\ \E q \in Segments : buy_indic[j] \in SegIndices(q)
              /\ buy_indic[j] > SegStart(SegmentOf(buy_indic[j]))
        /\ \A q \in Segments :
              SegEnd(q) - SegStart(q) = 1 => BuysIn(q) = {}
        /\ n_parts >= L => (buy_indic = << >> /\ total_price.num = 0)

\* a call with limit >= 0 returns an execution, and the price that stands
\* out at the start of another segment was passed over
C25_Witness ==
    /\ Returning
    /\ impl = "scheduled_procurement"
    /\ limit >= 0
    /\ n_parts >= 2
    /\ L > n_parts
    /\ Len(buy_indic) = 1
    /\ buy_indic[1] > SegStart(SegmentOf(buy_indic[1]))

\* ------------------------------------------------------------------ C26
RECURSIVE StartsFrom(_, _, _)
\* boundary(q) for each of the segments q..N-1 of a series of length len
\* that is not empty
StartsFrom(len, N, q) ==
    IF q >= N THEN << >>
    ELSE (IF Boundary(len, N, q + 1) > Boundary(len, N, q)
          THEN <<Boundary(len, N, q)>> ELSE << >>) \o StartsFrom(len, N, q + 1)

\* C26 (negative limit): for limit < 0 every non-empty segment executes at
\* its own start: the execution indices are exactly the starts boundary(q)
\* of the non-empty segments, and the total is V / N times the sum of the
\* prices at those starts, whatever the other prices are.
C26_ExecutesAtSegmentStart ==
    (Returning /\ limit < 0 /\ n_parts >= 1) =>
        /\ buy_indic = StartsFrom(L, n_parts, 0)
        /\ total_price.num * n_parts =
              total_price.den * mwhs * SumAt(price_avg, StartsFrom(L, n_parts, 0))

\* the same with the starts the call itself computed: parts[q] for the
\* segments with parts[q] < parts[q+1]
ExecutesAtOwnParts ==
    (Returning /\ limit < 0 /\ n_parts >= 1) =>
        /\ \A q \in Segments :
              IF SegEnd(q) > SegStart(q)
              THEN \E j \in 1..Len(buy_indic) : buy_indic[j] = SegStart(q)
              ELSE BuysIn(q) = {}
        /\ \A j \in 1..Len(buy_indic) :
              \E q \in Segments : SegEnd(q) > SegStart(q) /\ buy_indic[j] = SegStart(q)

\* --------------------------------------------------------------- download
MaxHours == 5      \* the latest end_date of a download, in hours
MaxCalls == 3      \* the download_by_country_code calls of a run

\* what download_by_country_code leaves alone
beside_download == <<scripts, datamanager, runner, forecast>>

\* a timestamp carries a price: every hour before START_OF_15_MIN_SPOT_PRICE,
\* every quarter of an hour from it onward
PriceSlot(t) ==
    /\ t >= DATA_START_DATE
    /\ t < START_OF_15_MIN_SPOT_PRICE => t % 4 = 0

RECURSIVE SlotsFrom(_, _)
SlotsFrom(lo, hi) ==
    IF lo > hi THEN << >>
    ELSE (IF PriceSlot(lo) THEN <<lo>> ELSE << >>) \o SlotsFrom(lo + 1, hi)

\* client.query_day_ahead_prices(country_code, start_date, end_date), for a
\* platform that answers with every price slot in [start_date, end_date]
query_day_ahead_prices(start, end) == SlotsFrom(start, end)

\* the downloads of one country, one call after the other
DownloadInit ==
    /\ impl = "datamanager"
    /\ ScriptsIdle
    /\ DataManagerIdle
    /\ RunnerIdle
    /\ ForecastIdle
    /\ DownloadIdle
    /\ pc = "idle"
    /\ err = "none"

\* download(): start_date = DATA_START_DATE,
\* end_date = pd.Timestamp.now(tz=DEFAULT_TIMEZONE).round(freq='h'),
\* self.download_by_country_code(client, country_code, start_date, end_date)
Download_Call ==
    /\ pc = "idle"
    /\ calls < MaxCalls
    /\ \E hour \in 0..MaxHours : end_date' = 4 * hour
    /\ end_date' >= end_date
    /\ start_date' = DATA_START_DATE
    /\ append' = FALSE
    /\ calls' = calls + 1
    /\ pc' = "exists"
    /\ UNCHANGED <<beside_download, csv, file_exists, dir_exists, queries, err>>

\* the timestamp of the last line of the CSV file
last_saved_time == csv[Len(csv)]

\* if filepath.exists(): ... start_date = last_saved_time + 15 minutes or
\* + 1 hour; append = True
Download_Resume ==
    /\ pc = "exists"
    /\ IF file_exists
       THEN /\ start_date' = IF last_saved_time > START_OF_15_MIN_SPOT_PRICE
                             THEN last_saved_time + 1
                             ELSE last_saved_time + 4
            /\ append' = TRUE
       ELSE UNCHANGED <<start_date, append>>
    /\ pc' = "check"
    /\ UNCHANGED <<beside_download, csv, file_exists, dir_exists, end_date,
                   queries, calls, err>>

\* start_date > end_date
IsUpToDate_strict == start_date > end_date

\* if start_date >= end_date:
IsUpToDate == start_date >= end_date

\* logger.info("... is already up to date."); return
Download_UpToDate ==
    /\ pc = "check"
    /\ IsUpToDate
    /\ pc' = "idle"
    /\ UNCHANGED <<beside_download, download, err>>

\* day_ahead_prices = client.query_day_ahead_prices(...); directory.mkdir(...);
\* day_ahead_prices.to_csv(filepath) or to_csv(filepath, mode='a', header=False)
Download_Fetch ==
    /\ pc = "check"
    /\ ~IsUpToDate
    /\ queries' = Append(queries, [start |-> start_date, end |-> end_date])
    /\ dir_exists' = TRUE
    /\ csv' = IF append
              THEN csv \o query_day_ahead_prices(start_date, end_date)
              ELSE query_day_ahead_prices(start_date, end_date)
    /\ file_exists' = TRUE
    /\ pc' = "idle"
    /\ UNCHANGED <<beside_download, start_date, end_date, append, calls, err>>

\* the query fails: except Exception as e: raise DownloadException(...)
Download_Fails ==
    /\ pc = "check"
    /\ ~IsUpToDate
    /\ queries' = Append(queries, [start |-> start_date, end |-> end_date])
    /\ Raise("DownloadException")
    /\ UNCHANGED <<beside_download, csv, file_exists, dir_exists, start_date,
                   end_date, append, calls>>

DownloadNext ==
    \/ Download_Call
    \/ Download_Resume
    \/ Download_UpToDate
    \/ Download_Fetch
    \/ Download_Fails

DownloadSpec == DownloadInit /\ [][DownloadNext]_vars

\* the price slot that follows t
NextSlot(t) == IF t >= START_OF_15_MIN_SPOT_PRICE THEN t + 1 ELSE t + 4

\* ------------------------------------------------------------------ C27
\* C27 (download resumption continuity): after any sequence of downloads of
\* a country the timestamps of its CSV file increase strictly, with no
\* duplicate and no missing price slot, and each resumed download starts at
\* the slot that follows the last saved timestamp, also when that timestamp
\* is START_OF_15_MIN_SPOT_PRICE.
C27_Continuous ==
    /\ \A j \in 1..(Len(csv) - 1) : csv[j + 1] = NextSlot(csv[j])
    /\ (pc = "check" /\ append) => start_date = NextSlot(last_saved_time)

\* ------------------------------------------------------------------ C28
\* C28 (an up-to-date download is a no-op): when start_date, resumed or not,
\* is >= end_date, download_by_country_code sends no price query, creates no
\* directory, leaves the CSV file as it is and returns without raising.
C28_UpToDateNoOp ==
    [][ (pc = "check" /\ start_date >= end_date) =>
            /\ queries' = queries
            /\ dir_exists' = dir_exists
            /\ file_exists' = file_exists
            /\ csv' = csv
            /\ err' = "none"
            /\ pc' = "idle" ]_vars

\* a resumed download has found the file up to date and has returned
C28_Witness ==
    /\ pc = "idle"
    /\ calls >= 2
    /\ append
    /\ start_date >= end_date
    /\ Len(queries) = 1
    /\ err = "none"

\* ---------------------------------------------------------- AnalysisRunner
MaxAnalyzers == 3      \* the most analyzers a runner has registered

AnalyzerNames == {"MovingAverageAnalyzer", "ForecastAnalyzer"}

\* what run_all leaves alone
beside_runner == <<scripts, country_codes, data, unwritable, c, saved,
                   features_file, download, forecast>>

\* runner = AnalysisRunner(); runner.add_analyzer(...) some times;
\* runner.run_all(df).  An analyzer is its class name and whether its
\* analyze(df) raises an Exception on this df.
RunnerInit ==
    /\ impl = "analysis"
    /\ ScriptsIdle
    /\ DataManagerIdle
    /\ DownloadIdle
    /\ ForecastIdle
    /\ analyzers \in SeqsUpTo([name : AnalyzerNames, raises : BOOLEAN], MaxAnalyzers)
    /\ results = [x \in {} |-> 0]
    /\ invoked = << >>
    /\ analyzer = 1
    /\ pc = "run_all"
    /\ err = "none"

\* name = analyzer.__class__.__name__
name == analyzers[analyzer].name

\* the exception of analyze leaves run_all
Analyze_Raises_unhandled ==
    /\ pc = "run_all"
    /\ analyzer <= Len(analyzers)
    /\ analyzers[analyzer].raises
    /\ invoked' = Append(invoked, analyzer)
    /\ Raise("Exception")
    /\ UNCHANGED <<beside_runner, analyzers, results, analyzer, log>>

\* try: results[name] = analyzer.analyze(df)
Analyze_Returns ==
    /\ pc = "run_all"
    /\ analyzer <= Len(analyzers)
    /\ ~analyzers[analyzer].raises
    /\ invoked' = Append(invoked, analyzer)
    /\ results' = DictSet(results, name, analyzer)
    /\ analyzer' = analyzer + 1
    /\ UNCHANGED <<beside_runner, analyzers, log, pc, err>>

\* except Exception as e: logger.error(f"Error running {name}: {e}")
Analyze_Raises ==
    /\ pc = "run_all"
    /\ analyzer <= Len(analyzers)
    /\ analyzers[analyzer].raises
    /\ invoked' = Append(invoked, analyzer)
    /\ log' = Append(log, [level |-> "error", about |-> name])
    /\ analyzer' = analyzer + 1
    /\ UNCHANGED <<beside_runner, analyzers, results, pc, err>>

\* return results
RunAll_Return ==
    /\ pc = "run_all"
    /\ analyzer > Len(analyzers)
    /\ pc' = "done"
    /\ UNCHANGED <<beside_runner, runner, log, err>>

RunnerNext ==
    \/ Analyze_Returns
    \/ Analyze_Raises
    \/ RunAll_Return

RunnerSpec == RunnerInit /\ [][RunnerNext]_vars

\* the positions of the analyzers that did not raise
Succeeded == {j \in 1..Len(analyzers) : ~analyzers[j].raises}

\* ------------------------------------------------------------------ C29
\* C29 (run_all error isolation): run_all never raises; when it returns,
\* every registered analyzer has been invoked exactly once, in registration
\* order; the result has one entry per class name that succeeded and none
\* for a name that only raised; an entry is never the work of an analyzer
\* that raised, and it is that of the last analyzer of its name that
\* succeeded.
C29_RunAllIsolates ==
    /\ err = "none"
    /\ pc # "raised"
    /\ \A j \in 1..Len(invoked) : invoked[j] = j
    /\ pc = "done" =>
          /\ Len(invoked) = Len(analyzers)
          /\ DOMAIN results = {analyzers[j].name : j \in Succeeded}
          /\ \A nm \in DOMAIN results :
                /\ results[nm] \in Succeeded
                /\ analyzers[results[nm]].name = nm
                /\ \A j \in Succeeded :
                      analyzers[j].name = nm => j <= results[nm]

\* run_all has returned after an analyzer raised and a later one succeeded
C29_Witness ==
    /\ pc = "done"
    /\ \E j \in 1..Len(analyzers) : \E later \in 1..Len(analyzers) :
          /\ j < later
          /\ analyzers[j].raises
          /\ later \in Succeeded
          /\ analyzers[later].name \in DOMAIN results
          /\ analyzers[j].name \notin DOMAIN results

\* ------------------------------------------- ForecastAnalyzer: cutoffs
\* Times are whole hours; pd.Timedelta(days=d) is 24 * d of them.
MaxEndTime == 2        \* latest index of the series
MaxBacktestDays == 3   \* most days of backtest
MaxStepHours == 30     \* longest step between cutoffs

\* what the cutoff generation leaves alone
beside_forecast == <<scripts, datamanager, download, runner>>

\* ForecastAnalyzer(backtest_days, step_hours).analyze(df) has reached
\* "Determine cutoffs"; end_time is series.index[-1].
CutoffInit ==
    /\ impl = "forecast"
    /\ ScriptsIdle
    /\ DataManagerIdle
    /\ DownloadIdle
    /\ RunnerIdle
    /\ end_time \in 0..MaxEndTime
    /\ backtest_days \in 0..MaxBacktestDays
    /\ step_hours \in 1..MaxStepHours
    /\ current_cutoff = 0
    /\ cutoffs = << >>
    /\ pc = "cutoffs"
    /\ err = "none"

\* start_backtest = end_time - pd.Timedelta(days=self.backtest_days)
start_backtest == end_time - 24 * backtest_days

\* cutoffs = [end_time]; if self.backtest_days > 0: current_cutoff =
\* start_backtest; cutoffs = []
Cutoffs_Determine ==
    /\ pc = "cutoffs"
    /\ IF backtest_days > 0
          THEN /\ current_cutoff' = start_backtest
               /\ cutoffs' = << >>
               /\ pc' = "while"
          ELSE /\ cutoffs' = <<end_time>>
               /\ pc' = "done"
               /\ UNCHANGED current_cutoff
    /\ UNCHANGED <<beside_forecast, end_time, backtest_days, step_hours, log, err>>

\* while current_cutoff <= end_time: cutoffs.append(current_cutoff);
\* current_cutoff += pd.Timedelta(hours=self.step_hours)
Cutoffs_Append ==
    /\ pc = "while"
    /\ current_cutoff <= end_time
    /\ cutoffs' = Append(cutoffs, current_cutoff)
    /\ current_cutoff' = current_cutoff + step_hours
    /\ UNCHANGED <<beside_forecast, end_time, backtest_days, step_hours, log, pc, err>>

\* the loop ends and the list is left as the loop made it
Cutoffs_Close_as_is ==
    /\ pc = "while"
    /\ current_cutoff > end_time
    /\ pc' = "done"
    /\ UNCHANGED <<beside_forecast, forecast, log, err>>

\* the loop ends; if cutoffs[-1] < end_time: cutoffs.append(end_time)
Cutoffs_Close ==
    /\ pc = "while"
    /\ current_cutoff > end_time
    /\ cutoffs' = IF cutoffs[Len(cutoffs)] < end_time
                     THEN Append(cutoffs, end_time)
                     ELSE cutoffs
    /\ pc' = "done"
    /\ UNCHANGED <<beside_forecast, end_time, backtest_days, step_hours,
                   current_cutoff, log, err>>

CutoffNext ==
    \/ Cutoffs_Determine
    \/ Cutoffs_Append
    \/ Cutoffs_Close

\* The statements of analyze run one after the other, so a step that can
\* be taken is taken.
CutoffSpec == CutoffInit /\ [][CutoffNext]_vars /\ WF_vars(CutoffNext)

\* the list the generation has to end with
CutoffsAsClaimed ==
    /\ Len(cutoffs) >= 1
    /\ cutoffs[1] = start_backtest
    /\ cutoffs[Len(cutoffs)] = end_time
    /\ \A j \in 1..Len(cutoffs) : cutoffs[j] <= end_time
    /\ \A j \in 1..(Len(cutoffs) - 1) : cutoffs[j] < cutoffs[j + 1]
    /\ \A j \in 1..(Len(cutoffs) - 2) : cutoffs[j + 1] = cutoffs[j] + step_hours

\* ------------------------------------------------------------------ C30
\* C30 (backtest cutoffs): with backtest_days > 0 and step_hours >= 1 the
\* cutoff generation terminates, and the list it ends with increases
\* strictly, starts at end_time - backtest_days, has consecutive entries
\* step_hours apart except possibly the last two, has no entry after
\* end_time and ends with end_time.
C30_Cutoffs ==
    /\ [](backtest_days > 0 /\ pc = "done" => CutoffsAsClaimed)
    /\ (backtest_days > 0 => <>(pc = "done"))

\* the generation has ended on an end_time that the steps did not hit
C30_Witness ==
    /\ pc = "done"
    /\ backtest_days > 0
    /\ Len(cutoffs) >= 3
    /\ cutoffs[Len(cutoffs)] = end_time
    /\ cutoffs[Len(cutoffs)] - cutoffs[Len(cutoffs) - 1] < step_hours

=============================================================================
